---- MODULE Spec2Model ----
(***************************************************************************)
(* mapchete_s3: the S3 output driver of mapchete.                          *)
(*                                                                         *)
(* Three specifications share this module:                                 *)
(*   Spec         the bucket as shared state, the driver's write() as a    *)
(*                sequence of put_object steps run by concurrent workers,  *)
(*                read() and tiles_exist() as calls, and the test          *)
(*                fixture's delete of one tile's object;                   *)
(*   SpecKey      get_bucket_key / get_path applied to drawn inputs;       *)
(*   SpecProfile  profile() applied to drawn output configurations.        *)
(***************************************************************************)
EXTENDS Integers, Sequences, FiniteSets, TLC

VARIABLES
    store,      \* the bucket: object key -> object body, for the keys present
    committed,  \* history: tile key -> body of the last put_object to it that
                \*          no delete has removed since
    worker,     \* per worker: the position of its write() call, or the
                \*             call it made last and what that returned
    inp,        \* SpecKey, SpecProfile: the drawn input
    out         \* SpecKey, SpecProfile: the result of applying the function

vars == <<store, committed, worker, inp, out>>

-----------------------------------------------------------------------------
(* Bounds *)

MaxValue == 2       \* pixel values are 0..MaxValue (0 is the nodata value)
MaxKeyZoom == 2     \* SpecKey: zoom levels 0..MaxKeyZoom
MaxKeyCoord == 11   \* SpecKey: rows and columns 0..MaxKeyCoord

-----------------------------------------------------------------------------
(* Python helpers *)

Max(a, b) == IF a >= b THEN a ELSE b
Min(a, b) == IF a <= b THEN a ELSE b
CeilDiv(a, b) == (a + b - 1) \div b

Range(a, b) == [k \in 1..Max(0, b - a + 1) |-> a + k - 1]

RECURSIVE Flatten(_)
Flatten(ss) == IF ss = <<>> THEN <<>> ELSE Head(ss) \o Flatten(Tail(ss))

SeqRange(s) == {s[k] : k \in DOMAIN s}

DigitChars == <<"0", "1", "2", "3", "4", "5", "6", "7", "8", "9">>

\* str(n) of a non-negative int: unpadded decimal digits
RECURSIVE str(_)
str(n) == IF n < 10 THEN DigitChars[n + 1]
          ELSE str(n \div 10) \o DigitChars[(n % 10) + 1]

startswith(s, prefix) ==
    /\ Len(prefix) <= Len(s)
    /\ SubSeq(s, 1, Len(prefix)) = prefix

endswith(s, suffix) ==
    /\ Len(suffix) <= Len(s)
    /\ SubSeq(s, Len(s) - Len(suffix) + 1, Len(s)) = suffix

\* posixpath.join(a, *p): an absolute component discards what came before
\* it; a separator is inserted unless the path is empty or ends with one
RECURSIVE join_from(_, _)
join_from(path, parts) ==
    IF parts = <<>> THEN path
    ELSE LET b == Head(parts)
         IN  join_from(
                 IF startswith(b, "/") THEN b
                 ELSE IF path = "" \/ endswith(path, "/") THEN path \o b
                 ELSE path \o "/" \o b,
                 Tail(parts))

os_path_join(parts) == join_from(Head(parts), Tail(parts))

\* dict helpers: a dict is a function whose domain is its set of keys
dict_update(d, k, v) == [x \in DOMAIN d \cup {k} |-> IF x = k THEN v ELSE d[x]]
dict_pop(d, k) == [x \in DOMAIN d \ {k} |-> d[x]]

-----------------------------------------------------------------------------
(* Tiles and the output pyramid (the tiling collaborator) *)

\* A tile is a pyramid coordinate plus the metatiling of the pyramid it is a
\* member of. NoTile stands for Python's None.
NoTile == [zoom |-> -1, row |-> -1, col |-> -1, metatiling |-> 0]

Tile(zoom, row, col, metatiling) ==
    [zoom |-> zoom, row |-> row, col |-> col, metatiling |-> metatiling]

\* The process configuration: the output pyramid has metatiling 2, the
\* process pyramid metatiling 4, both on the geodetic grid (2^zoom rows and
\* 2^(zoom + 1) columns of base tiles), processed at zoom level 1: one
\* process tile, which intersects the two tiles of the output pyramid.
pyramid == [metatiling |-> 2, process_metatiling |-> 4, zoom_levels |-> {1}]

matrix_height(zoom, metatiling) == CeilDiv(2 ^ zoom, metatiling)
matrix_width(zoom, metatiling) == CeilDiv(2 ^ (zoom + 1), metatiling)

TilesOf(metatiling) ==
    UNION { { Tile(z, r, c, metatiling) :
                r \in 0..(matrix_height(z, metatiling) - 1),
                c \in 0..(matrix_width(z, metatiling) - 1) } :
            z \in pyramid.zoom_levels }

\* the tiles the orchestrator dispatches, and the tiles of the output pyramid
ProcessTiles == TilesOf(pyramid.process_metatiling)
OutputTiles == TilesOf(pyramid.metatiling)

\* tile.shape: (height, width) in pixels
tile_shape(tile) == <<256 * tile.metatiling, 256 * tile.metatiling>>

\* self.pyramid.intersecting(tile): the tiles of the output pyramid that
\* intersect tile, in row-major order. A tile of the output pyramid intersects
\* itself; a tile of a coarser pyramid its children, clipped to the matrix;
\* a tile of a finer pyramid its parent.
intersecting(tile) ==
    LET m == pyramid.metatiling
    IN  IF tile.metatiling = m THEN <<tile>>
        ELSE IF tile.metatiling > m THEN
            LET f == tile.metatiling \div m
                rows == Range(tile.row * f,
                              Min(tile.row * f + f, matrix_height(tile.zoom, m)) - 1)
                cols == Range(tile.col * f,
                              Min(tile.col * f + f, matrix_width(tile.zoom, m)) - 1)
            IN  Flatten([i \in DOMAIN rows |->
                    [j \in DOMAIN cols |-> Tile(tile.zoom, rows[i], cols[j], m)]])
        ELSE
            LET f == m \div tile.metatiling
            IN  <<Tile(tile.zoom, tile.row \div f, tile.col \div f, m)>>

-----------------------------------------------------------------------------
(* Output configuration *)

\* gtiff.GTIFF_PROFILE, the default GeoTIFF profile the driver starts from.
\* It is defined by mapchete, outside the driver; whether it carries a default
\* `compress` is not decided by the driver's source. It carries none here:
\* the compression is left to the encoder.
GTIFF_PROFILE ==
    [blockysize |-> 256, blockxsize |-> 256, tiled |-> TRUE, dtype |-> "uint8",
     interleave |-> "band", nodata |-> 0]

\* output_params of the driver under Spec
output_params ==
    [bucket |-> "bucket",
     basekey |-> "_test/mapchete_s3",
     profile |-> [driver |-> "GTiff", bands |-> 3, dtype |-> "uint8",
                  nodata |-> 0]]

file_extension == ".tif"

\* self.nodata = output_params["profile"].get("nodata", 0)
nodata_of(params) ==
    IF "nodata" \in DOMAIN params.profile THEN params.profile["nodata"] ELSE 0

-----------------------------------------------------------------------------
(* Tile addressing *)

\* the key with column and row exchanged
get_bucket_key_colrow(params, tile) ==
    os_path_join(<<params.basekey, str(tile.zoom), str(tile.col),
                   str(tile.row)>>) \o file_extension

get_bucket_key(params, tile) ==
    os_path_join(<<params.basekey, str(tile.zoom), str(tile.row),
                   str(tile.col)>>) \o file_extension

get_path(params, tile) ==
    os_path_join(<<"s3://", params.bucket, get_bucket_key(params, tile)>>)

\* conftest._delete_tile: "_test/mapchete_s3/%s/%s/%s.tif" % (zoom, row, col)
delete_tile_key(zoom, row, col) ==
    "_test/mapchete_s3/" \o str(zoom) \o "/" \o str(row) \o "/" \o str(col)
        \o ".tif"

-----------------------------------------------------------------------------
(* Raster profile *)

profile_compress(out_profile, dst_metadata) ==
    IF "compression" \in DOMAIN out_profile
    THEN \* DeprecationWarning; the legacy key is the one that is read
         LET d == dict_update(dst_metadata, "compress",
                              out_profile["compression"])
         IN  IF "predictor" \in DOMAIN out_profile
             THEN dict_update(d, "predictor", out_profile["predictor"])
             ELSE d
    ELSE IF "compress" \in DOMAIN out_profile
    THEN LET d == dict_update(dst_metadata, "compress", out_profile["compress"])
         IN  IF "predictor" \in DOMAIN out_profile
             THEN dict_update(d, "predictor", out_profile["predictor"])
             ELSE d
    ELSE \* KeyError on out_profile["compress"]: predictor is skipped as well
         dst_metadata

profile_geometry(dst_metadata, tile) ==
    IF tile # NoTile
    THEN dict_update(dict_update(dict_update(dict_update(dst_metadata,
             "crs", "EPSG:4326"),
             "width", tile_shape(tile)[2]),
             "height", tile_shape(tile)[1]),
             "affine", <<tile.zoom, tile.row, tile.col, tile.metatiling>>)
    ELSE dict_pop(dict_pop(dict_pop(dict_pop(dst_metadata,
             "crs"), "width"), "height"), "affine")

profile(gtiff, out_profile, tile) ==
    LET d0 == dict_update(dict_update(dict_update(gtiff,
                  "count", out_profile["bands"]),
                  "dtype", out_profile["dtype"]),
                  "driver", "GTiff")
        d1 == dict_pop(d0, "transform")
        d2 == profile_geometry(d1, tile)
        d3 == IF "nodata" \in DOMAIN out_profile
              THEN dict_update(d2, "nodata", out_profile["nodata"])
              ELSE d2
    IN  profile_compress(out_profile, d3)

-----------------------------------------------------------------------------
(* Masked arrays and the raster container *)

\* A pixel is a value with its mask bit. The array of a process tile is the
\* sequence of its windows, one per intersecting output tile in row-major
\* order, each window uniform: one pixel stands for all its elements.
Pixel(v, m) == [v |-> v, m |-> m]

RawPixels ==
    {Pixel(0, TRUE)} \cup {Pixel(v, FALSE) : v \in 0..MaxValue}

RawData(process_tile) ==
    [1..Len(intersecting(process_tile)) -> RawPixels]

\* prepare_array(data, masked=True, nodata=...): ma.masked_values masks every
\* element equal to nodata, on top of the mask the input carries
prepare_array(data, nodata) ==
    [k \in DOMAIN data |-> Pixel(data[k].v, data[k].m \/ data[k].v = nodata)]

\* data.mask.all()
mask_all(data) == \A k \in DOMAIN data : data[k].m

\* every tile rendered from the first window
window_index_first(in_tile, out_tile) == 1

\* the position of out_tile's window in the array of in_tile
window_index(in_tile, out_tile) ==
    LET f == in_tile.metatiling \div out_tile.metatiling
        ncols == Min(in_tile.col * f + f,
                     matrix_width(in_tile.zoom, out_tile.metatiling))
                 - in_tile.col * f
    IN  (out_tile.row - in_tile.row * f) * ncols
        + (out_tile.col - in_tile.col * f) + 1

\* RasterWindowMemoryFile(in_tile, in_data, out_profile, out_tile): the
\* GeoTIFF of out_tile's window of in_data; masked elements are stored as the
\* profile's nodata value
RasterWindowMemoryFile(in_tile, in_data, out_profile, out_tile) ==
    LET px == in_data[window_index(in_tile, out_tile)]
    IN  [count |-> out_profile["count"],
         height |-> out_profile["height"],
         width |-> out_profile["width"],
         nodata |-> out_profile["nodata"],
         px |-> IF px.m THEN out_profile["nodata"] ELSE px.v]

\* a masked array of an output tile: shape (bands, height, width)
Array(shape, v, m) == [shape |-> shape, v |-> v, m |-> m]
NoArray == Array(<<>>, 0, TRUE)
IOError == Array(<<>>, -1, TRUE)

\* the body of an object that is no tile of this driver
ForeignBody == [count |-> 0, height |-> 0, width |-> 0, nodata |-> 0, px |-> 0]

-----------------------------------------------------------------------------
(* The bucket *)

NoObjects == [k \in {} |-> ForeignBody]

\* an upload that keeps the valid content of the object it replaces where
\* the new content is nodata
put_object_merge(bucket, key, body) ==
    [k \in DOMAIN bucket \cup {key} |->
        IF k # key THEN bucket[k]
        ELSE IF key \in DOMAIN bucket /\ body.px = body.nodata
        THEN [body EXCEPT !.px = bucket[key].px]
        ELSE body]

\* bucket.put_object(Key=key, Body=body): creates or overwrites
put_object(bucket, key, body) ==
    [k \in DOMAIN bucket \cup {key} |-> IF k = key THEN body ELSE bucket[k]]

\* client.delete_object(Bucket=..., Key=key)
delete_object(bucket, key) ==
    [k \in DOMAIN bucket \ {key} |-> bucket[k]]

\* bucket.objects.filter(Prefix=prefix): the keys that start with prefix
objects_filter(bucket, prefix) ==
    {k \in DOMAIN bucket : startswith(k, prefix)}

\* a prefix listing that is not empty taken for a match
any_key_exists_prefix(bucket, keys) ==
    IF keys = <<>> THEN "None"
    ELSE IF objects_filter(bucket, Head(keys)) # {} THEN "True" ELSE "False"

\* _any_key_exists(keys): the `return False` is in the body of the outer
\* loop, so the first key decides; with no key at all the result is None
any_key_exists(bucket, keys) ==
    IF keys = <<>> THEN "None"
    ELSE IF \E obj \in objects_filter(bucket, Head(keys)) : obj = Head(keys)
         THEN "True"
         ELSE "False"

tiles_exist(bucket, params, process_tile, output_tile) ==
    IF process_tile # NoTile /\ output_tile # NoTile THEN "ValueError"
    ELSE IF process_tile # NoTile
    THEN any_key_exists(bucket,
             [k \in DOMAIN intersecting(process_tile) |->
                 get_bucket_key(params, intersecting(process_tile)[k])])
    ELSE IF output_tile # NoTile
    THEN any_key_exists(bucket, <<get_bucket_key(params, output_tile)>>)
    ELSE "None"

\* rasterio.open(path, "r").read(masked=True): the object the URI names,
\* decoded; an element is masked where it holds the nodata value
rasterio_open_read(bucket, params, path) ==
    LET root == "s3://" \o params.bucket \o "/"
        key == IF startswith(path, root)
               THEN SubSeq(path, Len(root) + 1, Len(path))
               ELSE ""
    IN  IF key \in DOMAIN bucket /\ bucket[key] # ForeignBody
        THEN Array(<<bucket[key].count, bucket[key].height, bucket[key].width>>,
                   bucket[key].px, bucket[key].px = bucket[key].nodata)
        ELSE IOError

empty(params, process_tile) ==
    LET p == profile(GTIFF_PROFILE, params.profile, process_tile)
    IN  Array(<<p["count"]>> \o tile_shape(process_tile), p["nodata"], TRUE)

\* read() without the existence check
read_unchecked(bucket, params, output_tile) ==
    rasterio_open_read(bucket, params, get_path(params, output_tile))

\* read(output_tile): tiles_exist is called positionally, so output_tile is
\* bound to its process_tile parameter
read(bucket, params, output_tile) ==
    IF tiles_exist(bucket, params, output_tile, NoTile) = "True"
    THEN rasterio_open_read(bucket, params, get_path(params, output_tile))
    ELSE empty(params, output_tile)

-----------------------------------------------------------------------------------------------------------------------------------------------------
(* Spec: workers of the orchestrator calling the driver on one bucket *)

Workers == {"w1", "w2"}

\* a sidecar object beside a tile: its key starts with the tile's key
SidecarKeys ==
    {get_bucket_key(output_params, Tile(1, 0, 0, pyramid.metatiling))
        \o ".aux.xml"}

Idle ==
    [pc |-> "idle", process_tile |-> NoTile, output_tile |-> NoTile,
     data |-> <<>>, i |-> 0, disturbed |-> FALSE, exists |-> "None",
     array |-> NoArray]

\* the keys the write() call at record r has uploaded so far
uploaded_keys(r) ==
    {get_bucket_key(output_params, intersecting(r.process_tile)[k]) :
        k \in 1..(r.i - 1)}

\* history: the workers after worker w moved to record r and the object at
\* key was put or deleted. A write() in progress that had uploaded key is
\* disturbed: the bucket no longer holds what it uploaded.
Moved(w, r, key) ==
    [v \in Workers |->
        IF v = w THEN r
        ELSE IF worker[v].pc = "upload" /\ key \in uploaded_keys(worker[v])
        THEN [worker[v] EXCEPT !.disturbed = TRUE]
        ELSE worker[v]]

Init ==
    /\ store = [k \in SidecarKeys |-> ForeignBody]
    /\ committed = NoObjects
    /\ worker = [w \in Workers |-> Idle]
    /\ inp = <<>>
    /\ out = <<>>

\* the upload addressed by the URI instead of the key
upload_key_path(tile) == get_path(output_params, tile)

\* the Key write() passes to put_object
upload_key(tile) == get_bucket_key(output_params, tile)

\* write() without the return on fully masked data: the tiles are uploaded,
\* filled with nodata
write_uploads_empty(w, process_tile, raw) ==
    /\ worker[w].pc # "upload"
    /\ LET data == prepare_array(raw, nodata_of(output_params))
           tiles == intersecting(process_tile)
           keys == {get_bucket_key(output_params, tiles[k]) : k \in DOMAIN tiles}
           body(key) ==
               LET tile == CHOOSE t \in SeqRange(tiles) :
                               get_bucket_key(output_params, t) = key
               IN  RasterWindowMemoryFile(
                       process_tile, data,
                       profile(GTIFF_PROFILE, output_params.profile, tile),
                       tile)
       IN  IF mask_all(data)
           THEN /\ worker' = [worker EXCEPT ![w] = [Idle EXCEPT !.pc = "empty"]]
                /\ store' = [k \in DOMAIN store \cup keys |->
                                 IF k \in keys THEN body(k) ELSE store[k]]
                /\ committed' = [k \in DOMAIN committed \cup keys |->
                                     IF k \in keys THEN body(k)
                                     ELSE committed[k]]
           ELSE /\ worker' = [worker EXCEPT ![w] =
                       [Idle EXCEPT !.pc = "upload",
                                    !.process_tile = process_tile,
                                    !.data = data,
                                    !.i = 1]]
                /\ UNCHANGED <<store, committed>>
    /\ UNCHANGED <<inp, out>>

\* write(process_tile, data), up to the first upload: normalise, return at
\* once when everything is masked. The tags of a (data, tags) argument go
\* into the container as they are and are left out of the object bodies.
write(w, process_tile, raw) ==
    /\ worker[w].pc # "upload"
    /\ LET data == prepare_array(raw, nodata_of(output_params))
       IN  worker' = [worker EXCEPT ![w] =
               IF mask_all(data)
               THEN [Idle EXCEPT !.pc = "empty"]
               ELSE [Idle EXCEPT !.pc = "upload",
                                 !.process_tile = process_tile,
                                 !.data = data,
                                 !.i = 1]]
    /\ UNCHANGED <<store, committed, inp, out>>

\* one turn of the loop of write(): render the window of the next
\* intersecting tile and put it; after the last tile write() returns
write_upload(w) ==
    /\ worker[w].pc = "upload"
    /\ LET r == worker[w]
           tiles == intersecting(r.process_tile)
           tile == tiles[r.i]
           key == get_bucket_key(output_params, tile)
           memfile == RasterWindowMemoryFile(
                          r.process_tile, r.data,
                          profile(GTIFF_PROFILE, output_params.profile, tile),
                          tile)
       IN  /\ store' = put_object(store, upload_key(tile), memfile)
           /\ committed' = [k \in DOMAIN committed \cup {key} |->
                               IF k = key THEN memfile ELSE committed[k]]
           /\ worker' = Moved(w,
                  IF r.i = Len(tiles)
                  THEN [Idle EXCEPT !.pc = "ok"]
                  ELSE [r EXCEPT !.i = r.i + 1],
                  key)
    /\ UNCHANGED <<inp, out>>

\* a failure that removes what the call had uploaded
write_fail_rollback(w) ==
    /\ worker[w].pc = "upload"
    /\ worker' = [worker EXCEPT ![w] =
           [Idle EXCEPT !.pc = "error",
                        !.process_tile = worker[w].process_tile,
                        !.i = worker[w].i]]
    /\ store' = [k \in DOMAIN store \ uploaded_keys(worker[w]) |-> store[k]]
    /\ committed' = [k \in DOMAIN committed \ uploaded_keys(worker[w]) |->
                         committed[k]]
    /\ UNCHANGED <<inp, out>>

\* the render or the upload of the next tile raises: write() ends with the
\* error, at the tile it failed on
write_fail(w) ==
    /\ worker[w].pc = "upload"
    /\ worker' = [worker EXCEPT ![w] =
           [Idle EXCEPT !.pc = "error",
                        !.process_tile = worker[w].process_tile,
                        !.i = worker[w].i]]
    /\ UNCHANGED <<store, committed, inp, out>>

\* tiles_exist(process_tile, output_tile)
tiles_exist_call(w, process_tile, output_tile) ==
    /\ worker[w].pc # "upload"
    /\ worker' = [worker EXCEPT ![w] =
           [Idle EXCEPT !.pc = "exists",
                        !.process_tile = process_tile,
                        !.output_tile = output_tile,
                        !.exists = tiles_exist(store, output_params,
                                               process_tile, output_tile)]]
    /\ UNCHANGED <<store, committed, inp, out>>

\* read(output_tile)
read_call(w, output_tile) ==
    /\ worker[w].pc # "upload"
    /\ worker' = [worker EXCEPT ![w] =
           [Idle EXCEPT !.pc = "read",
                        !.output_tile = output_tile,
                        !.array = read(store, output_params, output_tile)]]
    /\ UNCHANGED <<store, committed, inp, out>>

\* conftest._delete_tile(zoom, row, col): the fixture's teardown. Deleting a
\* key that has no object changes nothing; only the other case is a step.
delete_tile(zoom, row, col) ==
    LET key == delete_tile_key(zoom, row, col)
    IN  /\ key \in DOMAIN store
        /\ store' = delete_object(store, key)
        /\ committed' = [k \in DOMAIN committed \ {key} |-> committed[k]]
        /\ worker' = Moved("", Idle, key)
        /\ UNCHANGED <<inp, out>>

Next ==
    \/ \E w \in Workers, p \in ProcessTiles :
           \E raw \in RawData(p) : write(w, p, raw)
    \/ \E w \in Workers : write_upload(w)
    \/ \E w \in Workers : write_fail(w)
    \/ \E w \in Workers, p \in ProcessTiles \cup {NoTile},
          t \in OutputTiles \cup {NoTile} : tiles_exist_call(w, p, t)
    \/ \E w \in Workers, t \in OutputTiles : read_call(w, t)
    \/ \E t \in OutputTiles : delete_tile(t.zoom, t.row, t.col)

Spec == Init /\ [][Next]_vars

-----------------------------------------------------------------------------
(* Claims checked under Spec *)

key_of(tile) == get_bucket_key(output_params, tile)

\* the keys of the output tiles that intersect a process tile
keys_of(process_tile) ==
    {key_of(intersecting(process_tile)[k]) :
        k \in DOMAIN intersecting(process_tile)}

\* what read() is to return for a tile with no object: fully masked, of shape
\* (bands, height, width), filled with the configured nodata value
ExpectedEmpty(tile) ==
    Array(<<output_params.profile.bands>> \o tile_shape(tile),
          output_params.profile.nodata, TRUE)

\* what read() is to return for a tile whose object is body
Decoded(body) ==
    Array(<<body.count, body.height, body.width>>, body.px,
          body.px = body.nodata)

Bool(b) == IF b THEN "True" ELSE "False"

\* C1: tiles_exist, asked for an output tile or for a process tile, is false
\* while no write has uploaded an object for the coordinates, and true once
\* a write has uploaded the objects of the tiles it covers (committed holds
\* the uploads that the fixture's delete has not removed since).
C1_ExistsFollowsWrites ==
    /\ \A t \in OutputTiles :
           tiles_exist(store, output_params, NoTile, t)
               = Bool(key_of(t) \in DOMAIN committed)
    /\ \A p \in ProcessTiles :
           /\ keys_of(p) \cap DOMAIN committed = {}
                  => tiles_exist(store, output_params, p, NoTile) = "False"
           /\ keys_of(p) \subseteq DOMAIN committed
                  => tiles_exist(store, output_params, p, NoTile) = "True"

\* C1 witness: a write() has returned, every tile it covers has its object,
\* and a worker's tiles_exist(process_tile) has answered True.
C1_Witness ==
    \E w, v \in Workers :
        /\ worker[w].pc = "ok"
        /\ worker[v].pc = "exists"
        /\ worker[v].process_tile \in ProcessTiles
        /\ worker[v].output_tile = NoTile
        /\ worker[v].exists = "True"
        /\ keys_of(worker[v].process_tile) \subseteq DOMAIN committed

\* C6 as stated: tiles_exist(process_tile=p) is true exactly when at least
\* one of the tiles intersecting p has an object, whatever its position.
C6_AnyIntersectingTile ==
    \A p \in ProcessTiles :
        tiles_exist(store, output_params, p, NoTile)
            = Bool(\E k \in keys_of(p) : k \in DOMAIN store)

\* C10: a tiles_exist(output_tile=t) call returns True exactly when the
\* bucket holds an object whose key is t's key, whatever other keys start
\* with it, and the call leaves the bucket as it was.
C10_ExactMatch ==
    [][\A w \in Workers :
          ( /\ worker'[w] # worker[w]
            /\ worker'[w].pc = "exists"
            /\ worker'[w].process_tile = NoTile
            /\ worker'[w].output_tile # NoTile )
          => /\ worker'[w].exists
                   = Bool(key_of(worker'[w].output_tile) \in DOMAIN store)
             /\ store' = store]_vars

\* C10 witness: tiles_exist(output_tile=t) answered False while the bucket
\* held an object whose key starts with t's key.
C10_Witness ==
    \E w \in Workers :
        /\ worker[w].pc = "exists"
        /\ worker[w].process_tile = NoTile
        /\ worker[w].output_tile \in OutputTiles
        /\ worker[w].exists = "False"
        /\ \E k \in DOMAIN store :
               /\ k # key_of(worker[w].output_tile)
               /\ startswith(k, key_of(worker[w].output_tile))

\* C4: a read(output_tile) call on a tile whose key has no object returns the
\* fully masked array of shape (bands, height, width) filled with nodata, not
\* an error, and leaves the bucket as it was.
C4_ReadMissing ==
    [][\A w \in Workers :
          ( /\ worker'[w] # worker[w]
            /\ worker'[w].pc = "read"
            /\ key_of(worker'[w].output_tile) \notin DOMAIN store )
          => /\ worker'[w].array = ExpectedEmpty(worker'[w].output_tile)
             /\ worker'[w].array # IOError
             /\ store' = store]_vars

\* C4 witness: a read() of a tile with no object has returned the empty array.
C4_Witness ==
    \E w \in Workers :
        /\ worker[w].pc = "read"
        /\ key_of(worker[w].output_tile) \notin DOMAIN store
        /\ worker[w].array = ExpectedEmpty(worker[w].output_tile)
        /\ worker[w].array.shape = <<3, 512, 512>>

\* C5: whatever the interleaving of the uploads, the object at a tile's key
\* is the body of the upload committed last to that key, and a read of the
\* tile returns that body decoded: no merge, no earlier content.
C5_LastWriterWins ==
    \A t \in OutputTiles :
        /\ key_of(t) \in DOMAIN store <=> key_of(t) \in DOMAIN committed
        /\ key_of(t) \in DOMAIN committed =>
               /\ store[key_of(t)] = committed[key_of(t)]
               /\ read(store, output_params, t) = Decoded(committed[key_of(t)])

\* C5 witness: a write() in progress has had a tile it uploaded overwritten
\* by another worker's upload of other content, which is what a read returns.
C5_Witness ==
    \E w \in Workers :
        /\ worker[w].pc = "upload"
        /\ worker[w].disturbed
        /\ LET t == intersecting(worker[w].process_tile)[1]
               px == worker[w].data[1]
           IN  /\ key_of(t) \in DOMAIN committed
               /\ ~px.m
               /\ committed[key_of(t)].px # px.v
               /\ read(store, output_params, t).v = committed[key_of(t)].px


\* the array a read is to return for a window of normalised data
ExpectedWindow(tile, px) ==
    Array(<<output_params.profile.bands>> \o tile_shape(tile),
          IF px.m THEN output_params.profile.nodata ELSE px.v, px.m)

\* the step in which write() of worker w returns after its last upload
Completes(w) == worker[w].pc = "upload" /\ worker'[w].pc = "ok"

\* the step in which write() of worker w uploads one tile
Uploads(w) ==
    /\ worker[w].pc = "upload"
    /\ worker'[w].pc = "ok" \/ worker'[w].i = worker[w].i + 1

\* the step in which write() of worker w fails
Fails(w) == worker[w].pc = "upload" /\ worker'[w].pc = "error"

\* C2: when a write() of data that is not fully masked returns, and no other
\* call has meanwhile put or deleted an object it uploaded, read(t) of every
\* output tile t intersecting the process tile returns t's window of the
\* data: the values where the data was valid, with the mask clear there.
C2_RoundTrip ==
    [][\A w \in Workers :
          (Completes(w) /\ ~worker[w].disturbed) =>
              LET tiles == intersecting(worker[w].process_tile)
              IN  \A k \in DOMAIN tiles :
                      /\ read(store', output_params, tiles[k])
                             = ExpectedWindow(tiles[k], worker[w].data[k])
                      /\ ~worker[w].data[k].m =>
                             ~read(store', output_params, tiles[k]).m]_vars

\* C2 witness: a write() has returned and the two tiles read back different
\* valid values.
C2_Witness ==
    \E w \in Workers :
        /\ worker[w].pc = "ok"
        /\ \E t1, t2 \in OutputTiles :
               /\ read(store, output_params, t1).v = 1
               /\ ~read(store, output_params, t1).m
               /\ read(store, output_params, t2).v = 2
               /\ ~read(store, output_params, t2).m

\* C3: a write() of fully masked data does nothing to the bucket: no object
\* is created, overwritten or removed, and a read of a tile that had no
\* object returns the empty masked array afterwards.
C3_EmptyWriteNoOp ==
    [][\A w \in Workers :
          (worker'[w].pc = "empty" /\ worker'[w] # worker[w]) =>
              /\ store' = store
              /\ \A t \in OutputTiles :
                     key_of(t) \notin DOMAIN store =>
                         read(store', output_params, t) = ExpectedEmpty(t)]_vars

\* C3 witness: a write() of fully masked data has returned while one tile had
\* an object and the other had none.
C3_Witness ==
    \E w \in Workers :
        /\ worker[w].pc = "empty"
        /\ \E t1, t2 \in OutputTiles :
               /\ key_of(t1) \in DOMAIN store
               /\ store[key_of(t1)].px # store[key_of(t1)].nodata
               /\ key_of(t2) \notin DOMAIN store
               /\ read(store, output_params, t2) = ExpectedEmpty(t2)

\* C7: the step in which write() fails leaves the bucket as it is (what the
\* call uploaded stays, what it had not reached keeps its state), the call is
\* over at the tile it failed on and its worker's next step uploads nothing;
\* every upload step changes the object at the key of its tile and no other.
C7_FailFastNoRollback ==
    [][\A w \in Workers :
          /\ Fails(w) =>
                 /\ store' = store
                 /\ worker'[w].i = worker[w].i
                 /\ worker'[w].process_tile = worker[w].process_tile
          /\ (worker[w].pc = "error" /\ worker'[w] # worker[w]) =>
                 store' = store
          /\ Uploads(w) =>
                 LET key == key_of(intersecting(worker[w].process_tile)
                                       [worker[w].i])
                 IN  /\ key \in DOMAIN store'
                     /\ DOMAIN store' = DOMAIN store \cup {key}
                     /\ \A k \in DOMAIN store \ {key} : store'[k] = store[k]]_vars

\* C7 witness: a write() has failed at its second tile; the first tile's
\* object is in the bucket with valid content, the second tile has none.
C7_Witness ==
    \E w \in Workers :
        /\ worker[w].pc = "error"
        /\ worker[w].i = 2
        /\ LET tiles == intersecting(worker[w].process_tile)
           IN  /\ key_of(tiles[1]) \in DOMAIN store
               /\ store[key_of(tiles[1])].px # store[key_of(tiles[1])].nodata
               /\ key_of(tiles[2]) \notin DOMAIN store

-----------------------------------------------------------------------------
(* SpecKey: get_bucket_key and get_path applied to drawn inputs *)

ExampleTile == Tile(5, 15, 32, pyramid.metatiling)

KeyTiles ==
    { Tile(z, r, c, pyramid.metatiling) :
        z \in 0..MaxKeyZoom, r \in 0..MaxKeyCoord, c \in 0..MaxKeyCoord }
    \cup {ExampleTile}

\* base keys: the fixture's, scenario A's, and strings that a configuration
\* may hold but that are no relative key prefix
BaseKeys == {"_test/mapchete_s3", "_test/run1", "a/", "/a", ""}

KeyInputs ==
    [basekey : BaseKeys, bucket : {"b"}, tile : KeyTiles]

InitKey ==
    /\ store = NoObjects
    /\ committed = NoObjects
    /\ worker = [w \in Workers |-> Idle]
    /\ inp \in KeyInputs
    /\ out = [done |-> FALSE, key |-> "", path |-> ""]

key_call ==
    /\ ~out.done
    /\ out' = [done |-> TRUE,
               key |-> get_bucket_key(inp, inp.tile),
               path |-> get_path(inp, inp.tile)]
    /\ UNCHANGED <<store, committed, worker, inp>>

NextKey == key_call

SpecKey == InitKey /\ [][NextKey]_vars

\* a base key that is a relative key prefix: not empty, no slash at either end
ValidBasekey(basekey) ==
    /\ basekey # ""
    /\ ~startswith(basekey, "/")
    /\ ~endswith(basekey, "/")

SameCoordinate(t1, t2) ==
    t1.zoom = t2.zoom /\ t1.row = t2.row /\ t1.col = t2.col

-----------------------------------------------------------------------------
(* SpecProfile: profile() applied to drawn output configurations *)

Codecs == {"", "lzw", "deflate"}

\* the profile of a configuration; "" and -1 stand for an absent key
ConfigProfile(bands, nodata, compression, compress, predictor) ==
    LET d0 == [driver |-> "GTiff", bands |-> bands, dtype |-> "uint8"]
        d1 == IF nodata # -1 THEN dict_update(d0, "nodata", nodata) ELSE d0
        d2 == IF compression # ""
              THEN dict_update(d1, "compression", compression) ELSE d1
        d3 == IF compress # ""
              THEN dict_update(d2, "compress", compress) ELSE d2
    IN  IF predictor # -1 THEN dict_update(d3, "predictor", predictor) ELSE d3

ProfileInputs ==
    { [gtiff |-> GTIFF_PROFILE,
       out_profile |-> ConfigProfile(b, n, cn, cp, pr),
       tile |-> t] :
        b \in {1, 3}, n \in {-1, 0, 255}, cn \in Codecs, cp \in Codecs,
        pr \in {-1, 2}, t \in {NoTile, ExampleTile} }

InitProfile ==
    /\ store = NoObjects
    /\ committed = NoObjects
    /\ worker = [w \in Workers |-> Idle]
    /\ inp \in ProfileInputs
    /\ out = [done |-> FALSE, profile |-> [k \in {} |-> 0]]

profile_call ==
    /\ ~out.done
    /\ out' = [done |-> TRUE,
               profile |-> profile(inp.gtiff, inp.out_profile, inp.tile)]
    /\ UNCHANGED <<store, committed, worker, inp>>

NextProfile == profile_call

SpecProfile == InitProfile /\ [][NextProfile]_vars

\* C9 as stated: with both `compression` and `compress` configured the
\* profile's compress is the value of `compress`; with `compression` alone
\* it is the value of `compression`; with neither the profile has no
\* compress field.
C9_CompressPrecedence ==
    out.done =>
        LET cfg == inp.out_profile
        IN  /\ ("compression" \in DOMAIN cfg /\ "compress" \in DOMAIN cfg) =>
                   /\ "compress" \in DOMAIN out.profile
                   /\ out.profile["compress"] = cfg["compress"]
            /\ ("compression" \in DOMAIN cfg /\ "compress" \notin DOMAIN cfg) =>
                   /\ "compress" \in DOMAIN out.profile
                   /\ out.profile["compress"] = cfg["compression"]
            /\ ("compression" \notin DOMAIN cfg /\ "compress" \notin DOMAIN cfg) =>
                   "compress" \notin DOMAIN out.profile

====
